---- MODULE Spec2Model ----
(***************************************************************************)
(* Module cache, refresh passes and load-order reconciliation of the       *)
(* Bannerlord extension (utils: refreshCacheOnEvent, getValidationInfo,    *)
(* refreshGameParams, getDeployedSubModPaths, prepareForModding).          *)
(*                                                                         *)
(* JavaScript is single threaded: a handler runs until its next await on   *)
(* I/O.  Every action below is one such run-to-suspension segment; the     *)
(* host may deliver any other event (another pass, a reader, a user edit)  *)
(* between two segments.  The handlers of the promise chain of             *)
(* prepareForModding (lines 226-283) are jobs of the promise queue, each a *)
(* step of its own: the jobs of another pass and the continuations of the  *)
(* host's own promises may run between any two of them.                    *)
(***************************************************************************)
EXTENDS Integers, Sequences, FiniteSets, TLC

(***************************************************************************)
(* Bounds of the model.                                                    *)
(***************************************************************************)
\* passes (refreshCacheOnEvent / prepareForModding calls) started in a run
MaxPasses == 2

(***************************************************************************)
(* Program constants (constants.ts is not part of the sources at hand).    *)
(***************************************************************************)
GAME_ID == "mountandblade2bannerlord"
OTHER_GAME == "skyrim"
MODULES == "Modules"
OFFICIAL_MODULES == {"Native", "SandBox"}
SUBMOD_FILE == "submodule.xml"
GameModeToken == "{{gameMode}}"
SubModIdsToken == "{{subModIds}}"
\* two fragments, each a sequence of text tokens, one placeholder each
PARAMS_TEMPLATE == << <<"/", GameModeToken>>,
                      <<"_MODULES_", SubModIdsToken, "*_MODULES_">> >>

(***************************************************************************)
(* Generic helpers.                                                        *)
(***************************************************************************)
Range(s) == {s[i] : i \in 1..Len(s)}

\* the value undefined
Undefined == "undefined"

\* String.prototype.toLowerCase on the file names that occur
ToLowerCase(s) ==
  CASE s = "SubModule.xml" -> "submodule.xml"
    [] s = "SUBMODULE.XML" -> "submodule.xml"
    [] s = "Readme.txt"    -> "readme.txt"
    [] s = "True"          -> "true"
    [] s = "False"         -> "false"
    [] OTHER               -> s

\* the replacement patterns of String.prototype.replace.  A grave accent
\* cannot stand inside a string of this module, so the pattern made of a
\* dollar sign and a grave accent is written with the word BACKTICK
DollarDollar == "$$"
DollarAmp == "$&"
DollarBacktick == "$BACKTICK"
DollarQuote == "$'"
\* String.prototype.replace(token, by) with a string pattern: the first
\* occurrence only, and the replacement text is a template in which $$
\* stands for $, $& for the matched text, dollar-grave and $' for the text
\* before and after the match (GetSubstitution)
RECURSIVE GetSubstitution(_, _, _, _)
GetSubstitution(by, matched, before, after) ==
  IF by = <<>> THEN <<>>
  ELSE (CASE Head(by) = DollarDollar   -> <<"$">>
          [] Head(by) = DollarAmp      -> <<matched>>
          [] Head(by) = DollarBacktick -> before
          [] Head(by) = DollarQuote    -> after
          [] OTHER                     -> <<Head(by)>>)
         \o GetSubstitution(Tail(by), matched, before, after)
Replace(frag, token, by) ==
  IF \A i \in 1..Len(frag) : frag[i] # token THEN frag
  ELSE LET at == CHOOSE i \in 1..Len(frag) :
                   frag[i] = token /\ \A j \in 1..(i - 1) : frag[j] # token
           before == SubSeq(frag, 1, at - 1)
           after == SubSeq(frag, at + 1, Len(frag))
       IN before \o GetSubstitution(by, token, before, after) \o after

(***************************************************************************)
(* Host state: profiles and the per-profile user load order.               *)
(***************************************************************************)
NoProfile == "noProfile"
ProfileIds == {"p1", "p2"}
\* selectors.profileById: the profile record, or undefined for an unknown id
profileById(id) ==
  CASE id = "p1" -> [id |-> "p1", gameId |-> GAME_ID]
    [] id = "p2" -> [id |-> "p2", gameId |-> OTHER_GAME]
    [] OTHER     -> [id |-> Undefined, gameId |-> Undefined]

\* a load order is an object: its entries in key insertion order; an entry
\* holds pos and enabled, and locked once the load-order page has set it
LoEntry(k, p, e) == [key |-> k, pos |-> p, enabled |-> e, locked |-> FALSE]
LoadOrders ==
  { <<>>,
    << LoEntry("vA", 1, TRUE), LoEntry("B", 0, TRUE) >>,
    << LoEntry("B", 0, FALSE), LoEntry("vC", 2, TRUE), LoEntry("vA", 1, TRUE),
       LoEntry("vZ", 3, TRUE) >> }

(***************************************************************************)
(* The module tree on disk: what a directory walk can find.  A file is a   *)
(* directory, a base name and the document it holds.                       *)
(***************************************************************************)
NoDoc == [kind |-> "none", id |-> "", vortexId |-> "", dependencies |-> <<>>]
Malformed == [kind |-> "malformed", id |-> "", vortexId |-> "", dependencies |-> <<>>]
NoRecord == [kind |-> "norecord", id |-> "", vortexId |-> "", dependencies |-> <<>>]
Manifest(i, v, d) == [kind |-> "module", id |-> i, vortexId |-> v, dependencies |-> d]
File(d, n, doc) == [dir |-> d, name |-> n, doc |-> doc]

FileSystems ==
  { << File("A", "SubModule.xml", Manifest("A", "vA", <<>>)),
       File("A", "Readme.txt", NoDoc),
       File("X", "submodule.xml", NoRecord),
       File("B", "SUBMODULE.XML", Manifest("B", "B", <<"A">>)) >>,
    << File("B", "SubModule.xml", Manifest("B", "B", <<"A", "C">>)),
       File("C", "SubModule.xml", Manifest("C", "vC", <<"B", "D">>)) >>,
    << File("A", "SubModule.xml", Manifest("A", "vA", <<>>)),
       File("B", "SubModule.xml", Malformed) >> }

\* a walk ends with the files found, or is cancelled, or fails
WalkOk(fs) == [kind |-> "ok", files |-> fs, code |-> "", path |-> ""]
WalkCanceled == [kind |-> "UserCanceled", files |-> <<>>, code |-> "", path |-> ""]
WalkError(c, p) == [kind |-> "error", files |-> <<>>, code |-> c, path |-> p]
WalkOutcomes ==
  {WalkOk(fs) : fs \in FileSystems}
    \cup {WalkCanceled, WalkError("ENOENT", "Native"),
          WalkError("ENOENT", "Modules"), WalkError("ENOENT", "A"),
          WalkError("EPERM", "Native")}

(***************************************************************************)
(* CACHE: a Map, kept as the sequence of its entries in insertion order.   *)
(* The field scan is bookkeeping: the pass whose scan produced the entry.  *)
(***************************************************************************)
NoInvalid == [cyclic |-> {}, missing |-> {}]
Keys(cache) == [i \in 1..Len(cache) |-> cache[i].id]
Has(cache, key) == \E i \in 1..Len(cache) : cache[i].id = key
Get(cache, key) == cache[CHOOSE i \in 1..Len(cache) : cache[i].id = key]
\* Map.prototype.clear
clear(cache) == <<>>
\* Map.prototype.set: replace the value in place, or append a new entry
CacheSet(cache, value) ==
  IF Has(cache, value.id)
    THEN [i \in 1..Len(cache) |->
            IF cache[i].id = value.id THEN value ELSE cache[i]]
    ELSE Append(cache, value)
RECURSIVE SetAll(_, _)
SetAll(cache, values) ==
  IF values = <<>> THEN cache
  ELSE SetAll(CacheSet(cache, Head(values)), Tail(values))

(***************************************************************************)
(* getDeployedSubModPaths, after the walk: the manifest files among those  *)
(* found (base name equal to SUBMOD_FILE, case-insensitively).             *)
(***************************************************************************)
subModules(moduleFiles) ==
  SelectSeq(moduleFiles, LAMBDA file : ToLowerCase(file.name) = SUBMOD_FILE)

\* is the failed path component the Modules directory or an official module
isMissingOfficialModules(err) ==
  err.code = "ENOENT" /\ err.path \in ({MODULES} \cup OFFICIAL_MODULES)

ReinstallMsg == "Game files are missing - please re-install the game"
WalkFailedMsg == "err.message"
LauncherDataMsg == "Failed to find game launcher data"

(***************************************************************************)
(* getDeployedModData (old-xml.ts): one record per manifest, in path       *)
(* order; a manifest without the required fields gives no record; a        *)
(* document that cannot be parsed fails the whole call (ParseInvalid).     *)
(***************************************************************************)
ParseFails(paths) == \E i \in 1..Len(paths) : paths[i].doc.kind = "malformed"
RECURSIVE getDeployedModData(_, _)
getDeployedModData(paths, scan) ==
  IF paths = <<>> THEN <<>>
  ELSE LET doc == Head(paths).doc
           rest == getDeployedModData(Tail(paths), scan)
       IN IF doc.kind = "module"
            THEN << [id |-> doc.id, vortexId |-> doc.vortexId,
                     dependencies |-> doc.dependencies,
                     invalid |-> NoInvalid, scan |-> scan] >> \o rest
            ELSE rest

(***************************************************************************)
(* tSort (old-xml.ts), the validation it writes into the cache: missing    *)
(* is the declared dependencies that are no cache key; cyclic is the       *)
(* other ids of the module's own dependency cycle.                         *)
(***************************************************************************)
IdSet(cache) == {cache[i].id : i \in 1..Len(cache)}
PresentDeps(cache, id) == Range(Get(cache, id).dependencies) \cap IdSet(cache)
\* ids reachable from id along present dependencies, in at most n steps
RECURSIVE DepClosure(_, _, _)
DepClosure(cache, ids, n) ==
  IF n = 0 THEN ids
  ELSE DepClosure(cache,
         ids \cup UNION {PresentDeps(cache, i) : i \in ids}, n - 1)
DependsOn(cache, id) ==
  DepClosure(cache, PresentDeps(cache, id), Len(cache))
\* variant: only the dependencies next to the module on its cycle
cyclicNeighbours(cache, id) ==
  {m \in PresentDeps(cache, id) \ {id} : id \in DependsOn(cache, m)}
cyclicOf(cache, id) ==
  {m \in IdSet(cache) \ {id} :
     m \in DependsOn(cache, id) /\ id \in DependsOn(cache, m)}
\* variant: every declared dependency reported
missingDeclared(cache, id) == Range(Get(cache, id).dependencies)
missingOf(cache, id) ==
  Range(Get(cache, id).dependencies) \ IdSet(cache)
tSortValidate(cache) ==
  [i \in 1..Len(cache) |->
     [cache[i] EXCEPT !.invalid =
        [cyclic |-> cyclicOf(cache, cache[i].id),
         missing |-> missingOf(cache, cache[i].id)]]]

(***************************************************************************)
(* tSort (old-xml.ts), the ordering it returns: Kahn's algorithm over the  *)
(* present dependencies.  Among the modules whose present dependencies     *)
(* are all placed, one listed in the hint load order (under its vortexId)  *)
(* goes by its position, the others in cache enumeration order; the        *)
(* modules a cycle leaves unplaced are appended in enumeration order.      *)
(* Where the spec does not say which module is taken, any may be: tSort    *)
(* is the set of the orderings the algorithm may return.                   *)
(***************************************************************************)
EnumIdx(cache, id) == CHOOSE i \in 1..Len(cache) : cache[i].id = id
HintIdx(cache, hint, id) ==
  {i \in 1..Len(hint) : hint[i].key = Get(cache, id).vortexId}
Hinted(cache, hint, id) == HintIdx(cache, hint, id) # {}
HintPos(cache, hint, id) ==
  hint[CHOOSE i \in HintIdx(cache, hint, id) : TRUE].pos
\* variant: the hint ignored
BeforeEnum(cache, hint, a, b) == EnumIdx(cache, a) < EnumIdx(cache, b)
\* the tie-break: may a be taken rather than b when both are available.
\* Two modules listed in the hint go by position (the sort is stable: at
\* equal positions by enumeration), two unlisted ones by enumeration.  The
\* spec gives no rule for a listed module against an unlisted one: either
\* may be taken
Before(cache, hint, a, b) ==
  IF Hinted(cache, hint, a) /\ Hinted(cache, hint, b)
    THEN \/ HintPos(cache, hint, a) < HintPos(cache, hint, b)
         \/ /\ HintPos(cache, hint, a) = HintPos(cache, hint, b)
            /\ EnumIdx(cache, a) < EnumIdx(cache, b)
  ELSE IF Hinted(cache, hint, a) # Hinted(cache, hint, b)
    THEN TRUE
  ELSE EnumIdx(cache, a) < EnumIdx(cache, b)
\* variant: every unplaced module counts as available
AvailableAny(cache, done) == IdSet(cache) \ Range(done)
\* the zero-in-degree modules: unplaced, every present dependency placed
Available(cache, done) ==
  {id \in IdSet(cache) \ Range(done) : PresentDeps(cache, id) \subseteq Range(done)}
\* variant: the unplaced modules dropped
UnresolvedNone(cache, done) == <<>>
\* the modules left unplaced, in cache enumeration order
Unresolved(cache, done) ==
  SelectSeq(Keys(cache), LAMBDA key : key \notin Range(done))
\* the available modules that the tie-break lets be taken next
Candidates(cache, hint, done) ==
  {a \in Available(cache, done) :
     \A b \in Available(cache, done) \ {a} : Before(cache, hint, a, b)}
RECURSIVE topSort(_, _, _)
topSort(cache, hint, done) ==
  IF Available(cache, done) = {} THEN {done \o Unresolved(cache, done)}
  ELSE UNION {topSort(cache, hint, Append(done, a)) :
                a \in Candidates(cache, hint, done)}
tSort(cache, loadOrder) == topSort(cache, loadOrder, <<>>)

(***************************************************************************)
(* getValidationInfo: looked up by vortexId, empty defaults.               *)
(***************************************************************************)
\* variant: the record looked up by its cache key
findByKey(cache, key) == IF Has(cache, key) THEN key ELSE Undefined
\* Array.from(CACHE.keys()).find(key => CACHE.get(key).vortexId === vortexId)
findByVortexId(cache, vortexId) ==
  IF \E i \in 1..Len(cache) : cache[i].vortexId = vortexId
    THEN cache[CHOOSE i \in 1..Len(cache) :
                 /\ cache[i].vortexId = vortexId
                 /\ \A j \in 1..(i - 1) : cache[j].vortexId # vortexId].id
    ELSE Undefined
getValidationInfo(cache, modVortexId) ==
  LET subModId == findByVortexId(cache, modVortexId)
  IN IF subModId = Undefined THEN NoInvalid
     ELSE [cyclic |-> Get(cache, subModId).invalid.cyclic,
           missing |-> Get(cache, subModId).invalid.missing]

(***************************************************************************)
(* refreshGameParams: the enabled ids and the parameters built from them.  *)
(***************************************************************************)
\* Array.prototype.sort with (lhs, rhs) => pos(lhs) - pos(rhs): stable
RECURSIVE InsertByPos(_, _)
InsertByPos(sorted, e) ==
  IF sorted = <<>> THEN <<e>>
  ELSE IF e.pos < Head(sorted).pos THEN <<e>> \o sorted
  ELSE <<Head(sorted)>> \o InsertByPos(Tail(sorted), e)
\* variant: the entries left in key order
SortByPosNone(entries) == entries
RECURSIVE SortByPos(_)
SortByPos(entries) ==
  IF entries = <<>> THEN <<>>
  ELSE InsertByPos(SortByPos(SubSeq(entries, 1, Len(entries) - 1)),
                   entries[Len(entries)])

\* variant: modules with validation findings are left out
RECURSIVE mapValidToCacheIds(_, _)
mapValidToCacheIds(cache, entries) ==
  IF entries = <<>> THEN <<>>
  ELSE LET entry == findByVortexId(cache, Head(entries).key)
       IN (IF entry # Undefined /\ entry # ""
              /\ Get(cache, entry).invalid = NoInvalid
             THEN <<entry>> ELSE <<>>)
            \o mapValidToCacheIds(cache, Tail(entries))
\* the reduce of lines 131-138: the cache id of each key, when there is one
RECURSIVE mapToCacheIds(_, _)
mapToCacheIds(cache, entries) ==
  IF entries = <<>> THEN <<>>
  ELSE LET entry == findByVortexId(cache, Head(entries).key)
       IN (IF entry # Undefined /\ entry # "" THEN <<entry>> ELSE <<>>)
            \o mapToCacheIds(cache, Tail(entries))

\* variant: the launcher preferences used whenever the user order gives nothing
enabledIdsEmptyFallback(cache, launcher, loadOrder) ==
  LET user == mapToCacheIds(cache,
                SortByPos(SelectSeq(loadOrder, LAMBDA e : e.enabled)))
      on == SelectSeq(launcher.singlePlayerSubMods, LAMBDA subMod : subMod.enabled)
  IN IF user # <<>> THEN user ELSE [i \in 1..Len(on) |-> on[i].subModId]
enabledIds(cache, launcher, loadOrder) ==
  IF Len(loadOrder) > 0
    THEN mapToCacheIds(cache,
           SortByPos(SelectSeq(loadOrder, LAMBDA e : e.enabled)))
    ELSE LET on == SelectSeq(launcher.singlePlayerSubMods,
                             LAMBDA subMod : subMod.enabled)
         IN [i \in 1..Len(on) |-> on[i].subModId]

\* enabled.map(key => `*${key}`).join('')
RECURSIVE starJoin(_)
starJoin(ids) ==
  IF ids = <<>> THEN <<>> ELSE <<"*", Head(ids)>> \o starJoin(Tail(ids))

BANNERLORD_EXEC == "Bannerlord.exe"
NoParams == [executable |-> "", parameters |-> <<>>]
gameParameters(cache, launcher, loadOrder) ==
  [executable |-> BANNERLORD_EXEC,
   parameters |->
     << Replace(PARAMS_TEMPLATE[1], GameModeToken, <<"singleplayer">>),
        Replace(PARAMS_TEMPLATE[2], SubModIdsToken,
                starJoin(enabledIds(cache, launcher, loadOrder))) >>]

(***************************************************************************)
(* The launcher preferences document and createDataElement.                *)
(***************************************************************************)
\* a ModDatas child: its serialized text is empty, or holds Id / IsSelected
Node(i, sel) == [text |-> "node", Id |-> i, IsSelected |-> sel]
EmptyNode == [text |-> "", Id |-> "", IsSelected |-> ""]
BrokenNode == [text |-> "node", Id |-> Undefined, IsSelected |-> "true"]
UnselectedNode == [text |-> "node", Id |-> "B", IsSelected |-> Undefined]
Doc(sp, mp) == [found |-> TRUE, single |-> sp, multi |-> mp]
DocNotFound == [found |-> FALSE, single |-> <<>>, multi |-> <<>>]
LauncherDocs ==
  { DocNotFound,
    Doc(<< Node("A", "True"), Node("B", "true"), EmptyNode, Node("Y", "false"),
           Node(DollarDollar, "true"),
           Node(DollarAmp, "true"), Node(DollarQuote, "true"),
           Node(DollarBacktick, "true") >>, << Node("Z", "True") >>),
    Doc(<< Node("A", "true"), BrokenNode >>, <<>>),
    Doc(<< Node("A", "false") >>, << UnselectedNode >>) }

\* nodeString.match(idRegexp)[0] throws when the node has no Id element,
\* nodeString.match(enabledRegexp)[0] when it has no IsSelected element
createDataElementThrows(xmlNode) ==
  /\ xmlNode.text # ""
  /\ (xmlNode.Id = Undefined \/ xmlNode.IsSelected = Undefined)
createDataElement(xmlNode) ==
  [subModId |-> xmlNode.Id,
   enabled |-> ToLowerCase(xmlNode.IsSelected) = "true"]
\* the reduce of lines 230-243: empty nodes give null and are skipped
dataElements(nodes) ==
  LET kept == SelectSeq(nodes, LAMBDA n : n.text # "")
  IN [i \in 1..Len(kept) |-> createDataElement(kept[i])]
anyThrows(nodes) == \E i \in 1..Len(nodes) : createDataElementThrows(nodes[i])

(***************************************************************************)
(* State.                                                                  *)
(***************************************************************************)
VARIABLES
  CACHE,          \* the module cache
  LAUNCHER_DATA,  \* the launcher preferences snapshot
  activeProfile,  \* id of the host's active profile, or NoProfile
  loadOrder,      \* persistent.loadOrder of profile p1
  discovered,     \* is the installation path known to the host
  gameParams,     \* the launch parameters last dispatched to the host
  tasks,          \* the passes: where each is suspended, and its locals
  nextPass,       \* number of the next pass
  last            \* bookkeeping: what the last step did

vars == <<CACHE, LAUNCHER_DATA, activeProfile, loadOrder, discovered,
          gameParams, tasks, nextPass, last>>

\* a pass in flight occupies a slot.  Nothing in the code keeps a pass from
\* being called while others are suspended, so there is a slot for every
\* pass of a run.  The field alone is bookkeeping: has no other pass been
\* in flight since this one was called
Slots == 1..MaxPasses
IdleTask == [kind |-> "none", pc |-> "idle", pass |-> 0, lo |-> <<>>,
             paths |-> <<>>, walk |-> "none", before |-> <<>>,
             exit |-> "", alone |-> TRUE]
\* a settled pass frees its slot
DoneTask == IdleTask
\* what the refresh callback finds when it is called: the cache and the
\* launch parameters the host holds at that point
NoSeen == [cache |-> <<>>, params |-> NoParams]
NoStep == [op |-> "init", pass |-> 0, exit |-> "", walk |-> "", outcome |-> "",
           notified |-> {}, refreshFunc |-> FALSE, dispatched |-> 0,
           arg |-> "", lo |-> <<>>, sorted |-> <<>>, before |-> <<>>,
           alone |-> TRUE, clears |-> 0, seen |-> NoSeen]

\* what the store holds as the load order of profile p1 at the start:
\* nothing yet, or an order of two entries
StoredLoadOrders == {lo \in LoadOrders : Len(lo) <= 2}

\* persistent.loadOrder[profileId], with the default of util.getSafe
LoadOrderOf(profileId) == IF profileId = "p1" THEN loadOrder ELSE <<>>
InFlight == {t \in Slots : tasks[t].pc # "idle"}
FreeSlot == CHOOSE t \in Slots \ InFlight : \A u \in Slots \ InFlight : t <= u
\* the tasks once a new pass has been called and suspended: the passes in
\* flight are no longer alone, and the new one is alone when there is none
Called(task) ==
  [t \in Slots |->
     IF t = FreeSlot THEN [task EXCEPT !.alone = (InFlight = {})]
     ELSE IF t \in InFlight THEN [tasks[t] EXCEPT !.alone = FALSE]
     ELSE tasks[t]]

Init ==
  /\ CACHE = <<>>
  /\ LAUNCHER_DATA = [singlePlayerSubMods |-> <<>>, multiplayerSubMods |-> <<>>]
  /\ activeProfile = "p1"
  /\ loadOrder \in StoredLoadOrders
  /\ discovered \in BOOLEAN
  /\ gameParams = NoParams
  /\ tasks = [t \in Slots |-> IdleTask]
  /\ nextPass = 1
  /\ last = NoStep

(***************************************************************************)
(* refreshCacheOnEvent, from the call to its first suspension (lines       *)
(* 18-39): a guard returns, or the call suspends at the await of line 39,  *)
(* on the walk or, with the installation path unknown, on the promise      *)
(* that getDeployedSubModPaths has rejected (line 165).  The catch of      *)
(* lines 43-50 then runs as a later job.                                   *)
(* The callers pass a refresh callback (refreshFunc is defined).           *)
(***************************************************************************)
\* variant: the game of the active profile not looked at
refreshGuardAnyGame(profileId) ==
  IF profileId = Undefined THEN "noProfileId"
  ELSE IF /\ activeProfile # NoProfile
          /\ profileById(profileId).id # Undefined
          /\ profileById(profileId).id # activeProfile THEN "otherProfile"
  ELSE "pass"
refreshGuard(profileId) ==
  IF profileId = Undefined THEN "noProfileId"
  ELSE IF /\ activeProfile # NoProfile
          /\ profileById(profileId).id # Undefined
          /\ profileById(profileId).id # activeProfile THEN "otherProfile"
  ELSE IF \/ activeProfile = NoProfile
          \/ profileById(activeProfile).gameId # GAME_ID THEN "otherGame"
  ELSE "pass"

refreshCacheOnEvent(profileId) ==
  /\ nextPass <= MaxPasses
  /\ nextPass' = nextPass + 1
  /\ UNCHANGED <<LAUNCHER_DATA, activeProfile, loadOrder, discovered, gameParams>>
  /\ LET guard == refreshGuard(profileId)
         exit == IF guard # "pass" THEN guard
                 ELSE IF ~discovered THEN "discoveryIncomplete" ELSE "suspended"
         \* CACHE.clear() at line 19, ahead of the guards
         atEntry == clear(CACHE)
         \* CACHE.clear() at line 38, first statement of the try block
         inTry == clear(atEntry)
     IN /\ CACHE' = IF guard # "pass" THEN atEntry ELSE inTry
        /\ tasks' = IF exit = "suspended"
                      THEN Called([IdleTask EXCEPT
                                     !.kind = "refresh", !.pc = "awaitPaths",
                                     !.pass = nextPass,
                                     !.lo = LoadOrderOf(activeProfile),
                                     !.walk = "pending", !.before = CACHE])
                    ELSE IF exit = "discoveryIncomplete"
                      THEN Called([IdleTask EXCEPT
                                     !.kind = "refresh", !.pc = "catchPaths",
                                     !.pass = nextPass,
                                     !.lo = LoadOrderOf(activeProfile),
                                     !.exit = exit, !.before = CACHE])
                      ELSE tasks
        /\ last' = [NoStep EXCEPT !.op = "refreshCacheOnEvent",
                                  !.pass = nextPass, !.exit = exit,
                                  !.arg = profileId,
                                  !.clears = IF guard # "pass" THEN 1 ELSE 2,
                                  !.outcome = IF guard = "pass"
                                                THEN "pending" ELSE "resolved"]

\* the catch of lines 43-50, run when the call resumes from the await of
\* line 39 with the ProcessCanceled of getDeployedSubModPaths: the promise
\* of the call is resolved, nothing else is done
refreshCatch(t) ==
  /\ tasks[t].pc = "catchPaths"
  /\ tasks' = [tasks EXCEPT ![t] = DoneTask]
  /\ last' = [NoStep EXCEPT !.op = "refreshCatch", !.pass = tasks[t].pass,
                            !.exit = tasks[t].exit, !.outcome = "resolved",
                            !.before = tasks[t].before,
                            !.alone = tasks[t].alone]
  /\ UNCHANGED <<CACHE, LAUNCHER_DATA, activeProfile, loadOrder, discovered,
                 gameParams, nextPass>>

(***************************************************************************)
(* getDeployedSubModPaths resumes when the walk ends (lines 169-183); its  *)
(* caller then starts getDeployedModData and suspends on the parsing.      *)
(***************************************************************************)
walkKind(w) ==
  IF w.kind = "ok" THEN "ok"
  ELSE IF w.kind = "UserCanceled" THEN "cancelled"
  ELSE IF isMissingOfficialModules(w) THEN "official"
  ELSE "error"
\* the error notification of lines 175-179, if any
walkNotified(w) ==
  IF w.kind = "ok" \/ w.kind = "UserCanceled" THEN {}
  ELSE IF isMissingOfficialModules(w) THEN {ReinstallMsg}
  ELSE {WalkFailedMsg}
deployedSubModules(w) == IF w.kind = "ok" THEN subModules(w.files) ELSE <<>>

walkAsyncDone(t, w) ==
  /\ tasks[t].pc = "awaitPaths"
  /\ tasks' = [tasks EXCEPT ![t].pc = "pathsReturned",
                            ![t].paths = deployedSubModules(w),
                            ![t].walk = walkKind(w)]
  /\ last' = [NoStep EXCEPT !.op = "walkAsyncDone", !.pass = tasks[t].pass,
                            !.walk = walkKind(w), !.outcome = "pending",
                            !.notified = walkNotified(w)]
  /\ UNCHANGED <<CACHE, LAUNCHER_DATA, activeProfile, loadOrder, discovered,
                 gameParams, nextPass>>

\* the caller of getDeployedSubModPaths resumes with the paths, a job
\* behind the one that returned them, and calls getDeployedModData
\* (line 40; line 250 in prepareForModding), on which it suspends
getDeployedModDataCall(t) ==
  /\ tasks[t].pc = "pathsReturned"
  /\ tasks' = [tasks EXCEPT ![t].pc = "awaitParse"]
  /\ last' = [NoStep EXCEPT !.op = "getDeployedModDataCall",
                            !.pass = tasks[t].pass, !.walk = tasks[t].walk,
                            !.outcome = "pending"]
  /\ UNCHANGED <<CACHE, LAUNCHER_DATA, activeProfile, loadOrder, discovered,
                 gameParams, nextPass>>

(***************************************************************************)
(* The pass resumes when getDeployedModData settles.  refreshCacheOnEvent: *)
(* lines 40-65, one turn of the event loop.  prepareForModding: lines      *)
(* 250-258; the promise of that handler then settles the chain: its catch  *)
(* handler is queued when the parsing failed, its finally handler (the     *)
(* catch handler being passed over) when it did not.                       *)
(***************************************************************************)
\* variant: the stored load order read whether a profile is active or not
finallyLoadOrderStored == loadOrder
\* the load order the finally handler of prepareForModding reads
finallyLoadOrder ==
  IF activeProfile = NoProfile THEN <<>> ELSE LoadOrderOf(activeProfile)

\* variant: the load order read from the store when the pass resumes
refreshLoadOrderNow(t) == LoadOrderOf(activeProfile)
\* the load order refreshCacheOnEvent reads at line 53: that of the state
\* it took at line 23, before it suspended
refreshLoadOrder(t) == tasks[t].lo

\* variant: the scan laid over what the cache held when the pass began
rebuiltOver(cache, t) ==
  tSortValidate(SetAll(tasks[t].before,
                       getDeployedModData(tasks[t].paths, tasks[t].pass)))
rebuilt(cache, t) ==
  tSortValidate(SetAll(cache, getDeployedModData(tasks[t].paths, tasks[t].pass)))

getDeployedModDataDone(t) ==
  /\ tasks[t].pc = "awaitParse"
  /\ LET failed == ParseFails(tasks[t].paths)
         setup == tasks[t].kind = "setup"
         lo == refreshLoadOrder(t)
         exit == IF failed THEN "parseInvalid" ELSE "completed"
         \* lines 40-42 and 53-59 (250-258): the cache populated, then
         \* resolved
         resolved == rebuilt(CACHE, t)
         \* line 61: the callback is called on the resolved cache, ahead
         \* of the dispatch of line 65
         seen == [cache |-> resolved, params |-> gameParams]
     IN /\ CACHE' = IF failed THEN CACHE ELSE resolved
        /\ gameParams' = IF failed \/ setup THEN gameParams
                         ELSE gameParameters(resolved, LAUNCHER_DATA, lo)
        /\ tasks' = [tasks EXCEPT ![t] =
                       IF setup
                         THEN [@ EXCEPT !.pc = IF failed THEN "catch" ELSE "finally",
                                        !.exit = exit]
                         ELSE DoneTask]
        /\ \E sorted \in IF failed THEN {<<>>}
                         ELSE tSort(resolved, IF setup THEN <<>> ELSE lo) :
             last' = [NoStep EXCEPT
                      !.op = "getDeployedModDataDone", !.pass = tasks[t].pass,
                      !.walk = tasks[t].walk,
                      !.exit = exit,
                      !.outcome = IF setup THEN "pending"
                                  ELSE IF failed THEN "rejected" ELSE "resolved",
                      !.refreshFunc = ~failed /\ ~setup,
                      !.seen = IF failed \/ setup THEN NoSeen ELSE seen,
                      !.dispatched = IF failed \/ setup THEN 0 ELSE 1,
                      !.lo = IF failed \/ setup THEN <<>> ELSE lo,
                      !.before = tasks[t].before,
                      !.alone = tasks[t].alone,
                      !.sorted = sorted]
  /\ UNCHANGED <<LAUNCHER_DATA, activeProfile, loadOrder, discovered, nextPass>>

(***************************************************************************)
(* prepareForModding: the catch handler of the chain (lines 260-272),     *)
(* run when a handler before it has rejected: the notification for a      *)
(* document that was not found (the chain is then fulfilled) and for an   *)
(* unknown installation path (the chain stays rejected, as for every      *)
(* other failure).  The finally handler is queued behind it.              *)
(***************************************************************************)
catchHandler(t) ==
  /\ tasks[t].pc = "catch"
  /\ tasks' = [tasks EXCEPT ![t].pc = "finally"]
  /\ last' = [NoStep EXCEPT
                !.op = "catchHandler", !.pass = tasks[t].pass,
                !.walk = tasks[t].walk, !.exit = tasks[t].exit,
                !.outcome = "pending",
                !.notified = IF tasks[t].exit \in {"notFound", "discoveryIncomplete"}
                               THEN {LauncherDataMsg} ELSE {}]
  /\ UNCHANGED <<CACHE, LAUNCHER_DATA, activeProfile, loadOrder, discovered,
                 gameParams, nextPass>>

(***************************************************************************)
(* prepareForModding: the finally handler of the chain (lines 273-283):   *)
(* the parameters built from the cache, the launcher preferences and the  *)
(* host state as they are when it runs; the promise of the pass then      *)
(* settles as the chain before the handler did.                           *)
(***************************************************************************)
finallyHandler(t) ==
  /\ tasks[t].pc = "finally"
  /\ gameParams' = gameParameters(CACHE, LAUNCHER_DATA, finallyLoadOrder)
  /\ tasks' = [tasks EXCEPT ![t] = DoneTask]
  /\ last' = [NoStep EXCEPT
                !.op = "finallyHandler", !.pass = tasks[t].pass,
                !.walk = tasks[t].walk, !.exit = tasks[t].exit,
                !.outcome = IF tasks[t].exit \in {"completed", "notFound"}
                              THEN "resolved" ELSE "rejected",
                !.dispatched = 1, !.lo = finallyLoadOrder,
                !.before = tasks[t].before, !.alone = tasks[t].alone]
  /\ UNCHANGED <<CACHE, LAUNCHER_DATA, activeProfile, loadOrder, discovered,
                 nextPass>>

(***************************************************************************)
(* prepareForModding: the call (lines 186-190, up to the await of          *)
(* fs.statAsync); the three resumptions that lead to the read of the       *)
(* launcher preferences document (lines 190-226); the handler of lines     *)
(* 226-246, run when getXMLData has settled; and the handler of lines      *)
(* 247-249, up to the await of the walk.  A rejection (the document not    *)
(* found, an entry that cannot be converted, the installation path         *)
(* unknown) queues the catch handler.  The tools that the first segments   *)
(* register with the host and the game store they note (STORE_ID) are not  *)
(* kept: nothing of lines 226-283 reads them.                              *)
(***************************************************************************)
prepareForModding ==
  /\ nextPass <= MaxPasses
  /\ nextPass' = nextPass + 1
  /\ tasks' = Called([IdleTask EXCEPT !.kind = "setup", !.pc = "awaitStat",
                                      !.pass = nextPass, !.before = CACHE])
  /\ last' = [NoStep EXCEPT !.op = "prepareForModding", !.pass = nextPass,
                            !.outcome = "pending"]
  /\ UNCHANGED <<CACHE, LAUNCHER_DATA, activeProfile, loadOrder, discovered,
                 gameParams>>

\* fs.statAsync has settled (lines 190-196): the modding kit is registered
\* as a tool when it is there or was known; findGame is called (line 201)
\* and waited for
statAsyncDone(t) ==
  /\ tasks[t].pc = "awaitStat"
  /\ tasks' = [tasks EXCEPT ![t].pc = "awaitFindGame"]
  /\ last' = [NoStep EXCEPT !.op = "statAsyncDone", !.pass = tasks[t].pass,
                            !.outcome = "pending"]
  /\ UNCHANGED <<CACHE, LAUNCHER_DATA, activeProfile, loadOrder, discovered,
                 gameParams, nextPass>>
\* findByAppId has settled (lines 82-86): the game store is noted when one
\* was found; the handlers of lines 201-205 are queued behind
findGameDone(t) ==
  /\ tasks[t].pc = "awaitFindGame"
  /\ tasks' = [tasks EXCEPT ![t].pc = "foundGame"]
  /\ last' = [NoStep EXCEPT !.op = "findGameDone", !.pass = tasks[t].pass,
                            !.outcome = "pending"]
  /\ UNCHANGED <<CACHE, LAUNCHER_DATA, activeProfile, loadOrder, discovered,
                 gameParams, nextPass>>
\* the handler of lines 203-205, behind findStoreId: launchGameStore is
\* called for steam and waited for, as is the resolved promise for any
\* other store
findStoreIdDone(t) ==
  /\ tasks[t].pc = "foundGame"
  /\ tasks' = [tasks EXCEPT ![t].pc = "awaitStore"]
  /\ last' = [NoStep EXCEPT !.op = "findStoreIdDone", !.pass = tasks[t].pass,
                            !.outcome = "pending"]
  /\ UNCHANGED <<CACHE, LAUNCHER_DATA, activeProfile, loadOrder, discovered,
                 gameParams, nextPass>>
\* startSteam has settled: getXMLData is called (line 226) and waited for
startSteamDone(t) ==
  /\ tasks[t].pc = "awaitStore"
  /\ tasks' = [tasks EXCEPT ![t].pc = "awaitXML"]
  /\ last' = [NoStep EXCEPT !.op = "startSteamDone", !.pass = tasks[t].pass,
                            !.outcome = "pending"]
  /\ UNCHANGED <<CACHE, LAUNCHER_DATA, activeProfile, loadOrder, discovered,
                 gameParams, nextPass>>

getXMLDataDone(t, doc) ==
  /\ tasks[t].pc = "awaitXML"
  /\ LET exit == IF ~doc.found THEN "notFound"
                 ELSE IF anyThrows(doc.single) \/ anyThrows(doc.multi)
                   THEN "dataInvalid"
                 ELSE "read"
     IN /\ LAUNCHER_DATA' =
             IF ~doc.found \/ anyThrows(doc.single) THEN LAUNCHER_DATA
             ELSE IF anyThrows(doc.multi)
               THEN [LAUNCHER_DATA EXCEPT
                       !.singlePlayerSubMods = dataElements(doc.single)]
             ELSE [singlePlayerSubMods |-> dataElements(doc.single),
                   multiplayerSubMods |-> dataElements(doc.multi)]
        /\ tasks' = [tasks EXCEPT ![t] =
                       IF exit = "read"
                         THEN [@ EXCEPT !.pc = "rebuild"]
                         ELSE [@ EXCEPT !.pc = "catch", !.exit = exit]]
        /\ last' = [NoStep EXCEPT
                      !.op = "getXMLDataDone", !.pass = tasks[t].pass,
                      !.exit = exit, !.outcome = "pending"]
  /\ UNCHANGED <<CACHE, activeProfile, loadOrder, discovered, gameParams,
                 nextPass>>

\* the handler of lines 247-249: the cache is cleared and
\* getDeployedSubModPaths is called, which rejects at once when the
\* installation path is unknown and starts the walk otherwise
rebuildHandler(t) ==
  /\ tasks[t].pc = "rebuild"
  /\ CACHE' = clear(CACHE)
  /\ LET exit == IF ~discovered THEN "discoveryIncomplete" ELSE "suspended"
     IN /\ tasks' = [tasks EXCEPT ![t] =
                       IF exit = "suspended"
                         THEN [@ EXCEPT !.pc = "awaitPaths", !.walk = "pending"]
                         ELSE [@ EXCEPT !.pc = "catch", !.exit = exit]]
        /\ last' = [NoStep EXCEPT
                      !.op = "rebuildHandler", !.pass = tasks[t].pass,
                      !.exit = exit, !.outcome = "pending", !.clears = 1]
  /\ UNCHANGED <<LAUNCHER_DATA, activeProfile, loadOrder, discovered,
                 gameParams, nextPass>>

(***************************************************************************)
(* Readers and the host.                                                   *)
(***************************************************************************)
\* the load-order page renders an item: it asks for the validation of the
\* item's id (isItemInvalid, itemInvalidReason) and gets a record back;
\* nothing is written
ItemIds == {"vC"}
getValidationInfoCall(modVortexId) ==
  /\ DOMAIN getValidationInfo(CACHE, modVortexId) = {"cyclic", "missing"}
  /\ last' = [NoStep EXCEPT !.op = "host"]
  /\ UNCHANGED <<CACHE, LAUNCHER_DATA, activeProfile, loadOrder, discovered,
                 gameParams, tasks, nextPass>>

\* refreshGameParams called on its own with the host's load order
\* (lines 125-159)
refreshGameParams ==
  /\ gameParams' = gameParameters(CACHE, LAUNCHER_DATA, finallyLoadOrder)
  /\ last' = [NoStep EXCEPT !.op = "refreshGameParams",
                            !.lo = finallyLoadOrder,
                            !.outcome = "resolved", !.dispatched = 1]
  /\ UNCHANGED <<CACHE, LAUNCHER_DATA, activeProfile, loadOrder, discovered,
                 tasks, nextPass>>

\* the user activates another profile, or none
SwitchProfile(p) ==
  /\ p # activeProfile
  /\ activeProfile' = p
  /\ last' = [NoStep EXCEPT !.op = "host"]
  /\ UNCHANGED <<CACHE, LAUNCHER_DATA, loadOrder, discovered, gameParams,
                 tasks, nextPass>>

\* the entry that onLock stores: position and status kept, the lock set
lockEntry(old, lock) ==
  [key |-> old.key, pos |-> old.pos, enabled |-> old.enabled, locked |-> lock]

\* the user ticks or unticks the checkbox of an item on the load-order
\* page (onStatusChange, customItemRenderer.ts lines 239-248).  The page
\* shows the load order of the active profile; order[item.id].pos throws a
\* TypeError when the order holds no entry for the item.  Otherwise the
\* entry is stored in place of the old one (onSetLoadOrderEntry)
StatusItemIds == {"vA"}
EntryIdx(order, id) == {i \in 1..Len(order) : order[i].key = id}
statusEntry(old, checked) ==
  [key |-> old.key, pos |-> old.pos, enabled |-> checked,
   locked |-> IF "locked" \in DOMAIN old THEN old.locked ELSE FALSE]
onSetLoadOrderEntry(order, id, entry) ==
  [i \in 1..Len(order) |-> IF order[i].key = id THEN entry ELSE order[i]]
onStatusChange(id, checked) ==
  /\ LET order == LoadOrderOf(activeProfile)
         throws == EntryIdx(order, id) = {}
     IN /\ loadOrder' =
             IF throws THEN loadOrder
             ELSE onSetLoadOrderEntry(order, id,
                    statusEntry(order[CHOOSE i \in EntryIdx(order, id) : TRUE],
                                checked))
        /\ last' = [NoStep EXCEPT !.op = "host"]
  /\ UNCHANGED <<CACHE, LAUNCHER_DATA, activeProfile, discovered, gameParams,
                 tasks, nextPass>>

\* the context menu of an item (lines 143-144) shows Lock for an entry that
\* is not locked and Unlock for one that is, and neither without an entry
contextMenuShows(id, lock) ==
  \E i \in EntryIdx(LoadOrderOf(activeProfile), id) :
    LoadOrderOf(activeProfile)[i].locked = ~lock

\* the user locks or unlocks an item from its context menu on the
\* load-order page (onLock, customItemRenderer.ts lines 118-127): the
\* entry is stored with its position and status and the new lock;
\* order[item.id].pos throws a TypeError when the order holds no entry
onLock(id, lock) ==
  /\ LET order == LoadOrderOf(activeProfile)
         throws == EntryIdx(order, id) = {}
     IN /\ loadOrder' =
             IF throws THEN loadOrder
             ELSE onSetLoadOrderEntry(order, id,
                    lockEntry(order[CHOOSE i \in EntryIdx(order, id) : TRUE],
                              lock))
        /\ last' = [NoStep EXCEPT !.op = "host"]
  /\ UNCHANGED <<CACHE, LAUNCHER_DATA, activeProfile, discovered, gameParams,
                 tasks, nextPass>>

Host ==
  \/ \E modVortexId \in ItemIds : getValidationInfoCall(modVortexId)
  \/ refreshGameParams
  \/ \E p \in ProfileIds \cup {NoProfile} : SwitchProfile(p)
  \/ \E id \in StatusItemIds, checked \in BOOLEAN : onStatusChange(id, checked)
  \/ \E id \in StatusItemIds, lock \in BOOLEAN :
       contextMenuShows(id, lock) /\ onLock(id, lock)

Resume ==
  \/ \E t \in Slots : refreshCatch(t)
  \/ \E t \in Slots : statAsyncDone(t)
  \/ \E t \in Slots : findGameDone(t)
  \/ \E t \in Slots : findStoreIdDone(t)
  \/ \E t \in Slots : startSteamDone(t)
  \/ \E t \in Slots, w \in WalkOutcomes : walkAsyncDone(t, w)
  \/ \E t \in Slots : getDeployedModDataCall(t)
  \/ \E t \in Slots : getDeployedModDataDone(t)
  \/ \E t \in Slots, doc \in LauncherDocs : getXMLDataDone(t, doc)
  \/ \E t \in Slots : rebuildHandler(t)
  \/ \E t \in Slots : catchHandler(t)
  \/ \E t \in Slots : finallyHandler(t)

RefreshArgs == ProfileIds \cup {Undefined, "px"}

\* passes may overlap: an event may arrive while other passes are suspended
Next ==
  \/ \E profileId \in RefreshArgs : refreshCacheOnEvent(profileId)
  \/ prepareForModding
  \/ Resume
  \/ Host

Spec == Init /\ [][Next]_vars

(***************************************************************************)
(* tSort on its own (lines 58-59 and 257-258): the cache holds any        *)
(* records over three module ids, each declaring any dependencies among   *)
(* these and one absent id, in any enumeration order; the hint is a load  *)
(* order of the host.  The call writes the validation into the records    *)
(* and returns the ordering.                                              *)
(***************************************************************************)
SortIds == {"A", "B", "C"}
DepIds == SortIds \cup {"D"}
vortexIdOf(id) == IF id = "B" THEN "B" ELSE IF id = "A" THEN "vA" ELSE "vC"
DepSeq(deps) == SelectSeq(<<"A", "B", "C", "D">>, LAMBDA d : d \in deps)
ScannedRecord(id, deps) ==
  [id |-> id, vortexId |-> vortexIdOf(id), dependencies |-> DepSeq(deps),
   invalid |-> NoInvalid, scan |-> 0]
SortKeys ==
  {ks \in UNION {[1..n -> SortIds] : n \in 0..Cardinality(SortIds)} :
     \A i, j \in 1..Len(ks) : i # j => ks[i] # ks[j]}
SortCaches ==
  {[i \in 1..Len(ks) |-> ScannedRecord(ks[i], deps[ks[i]])] :
     ks \in SortKeys,
     deps \in {d \in [SortIds -> SUBSET DepIds] : \A id \in SortIds : id \notin d[id]}}

InitSort ==
  /\ CACHE \in SortCaches
  /\ loadOrder \in LoadOrders
  /\ LAUNCHER_DATA = [singlePlayerSubMods |-> <<>>, multiplayerSubMods |-> <<>>]
  /\ activeProfile = "p1"
  /\ discovered = TRUE
  /\ gameParams = NoParams
  /\ tasks = [t \in Slots |-> IdleTask]
  /\ nextPass = 1
  /\ last = NoStep

tSortCall ==
  /\ nextPass <= MaxPasses
  /\ nextPass' = nextPass + 1
  /\ CACHE' = tSortValidate(CACHE)
  /\ \E sorted \in tSort(CACHE, loadOrder) :
       last' = [NoStep EXCEPT !.op = "tSort", !.pass = nextPass,
                              !.lo = loadOrder, !.sorted = sorted]
  /\ UNCHANGED <<LAUNCHER_DATA, activeProfile, loadOrder, discovered,
                 gameParams, tasks>>

SpecSort == InitSort /\ [][tSortCall]_vars

(***************************************************************************)
(* Properties.                                                             *)
(***************************************************************************)
\* the ids a dispatch put into the second parameter fragment
emitted(ids) == Replace(PARAMS_TEMPLATE[2], SubModIdsToken, starJoin(ids))
Reverse(seq) == [i \in 1..Len(seq) |-> seq[Len(seq) + 1 - i]]
SeqsUpTo(S, n) == UNION {[1..k -> S] : k \in 0..n}
TaskOf(pass) == {t \in Slots : tasks[t].pc # "idle" /\ tasks[t].pass = pass}

\* C1: in every reachable state all entries of the cache come from one
\* single scan, whatever the interleaving of the refresh passes.
C1_OneScan ==
  \A i, j \in 1..Len(CACHE) : CACHE[i].scan = CACHE[j].scan

\* C2: cache replacement is atomic build-then-swap: while a refresh pass is
\* suspended (on the walk or on the parsing) a reader still finds the
\* complete snapshot from before the pass, and when the pass has completed
\* it finds the complete snapshot of the new scan.  Stated for a pass that
\* no other pass has been in flight with (for passes that overlap see C1).
C2_AtomicSwap ==
  /\ \A t \in Slots :
       (/\ tasks[t].pc \in {"awaitPaths", "pathsReturned", "awaitParse"}
        /\ tasks[t].alone)
         => CACHE = tasks[t].before
  /\ (last.op = "getDeployedModDataDone" /\ last.exit = "completed"
        /\ last.alone)
        => \A i \in 1..Len(CACHE) : CACHE[i].scan = last.pass

\* C3: a refresh for a profile other than the active one is a no-op: the
\* cache, the launcher preferences and the dispatched parameters are left
\* as they were and the refresh callback is not invoked.
C3_OtherProfileNoOp ==
  [][(last'.op = "refreshCacheOnEvent" /\ last'.exit = "otherProfile")
       => /\ CACHE' = CACHE
          /\ LAUNCHER_DATA' = LAUNCHER_DATA
          /\ gameParams' = gameParams
          /\ ~last'.refreshFunc]_vars

\* C4: a refresh pass whose manifest parsing fails rejects, and the cache
\* after it holds what it held before the pass began.  Stated for a pass
\* that no other pass has been in flight with.
C4_ParseFailureKeepsCache ==
  [][\A t \in Slots :
       (/\ last'.op = "getDeployedModDataDone" /\ last'.exit = "parseInvalid"
        /\ tasks[t].kind = "refresh" /\ tasks[t].alone
        /\ tasks[t].pc = "awaitParse" /\ tasks[t].pass = last'.pass)
         => /\ last'.outcome = "rejected"
            /\ CACHE' = tasks[t].before]_vars

\* C5: with the installation path unknown, every caller of
\* getDeployedSubModPaths (refreshCacheOnEvent and prepareForModding) is
\* fulfilled, not rejected, and shows no error notification.
C5_DiscoveryIncompleteGraceful ==
  last.exit = "discoveryIncomplete"
    => (last.outcome # "rejected" /\ last.notified = {})

\* C6: a walk cancelled by the user gives an empty list without error or
\* notification, and the pass runs to completion as for a scan that found
\* no modules: it is not retried, it goes on to the parsing and from there
\* to its end, where the cache is empty and the launch parameters are
\* dispatched.
C6_CancelledWalkIsEmptyScan ==
  /\ \A t \in Slots :
       tasks[t].walk = "cancelled"
          => /\ tasks[t].paths = <<>>
             /\ \/ tasks[t].pc \in {"pathsReturned", "awaitParse"}
                \/ /\ tasks[t].kind = "setup" /\ tasks[t].pc = "finally"
                   /\ tasks[t].exit = "completed"
  /\ (last.op = "walkAsyncDone" /\ last.walk = "cancelled")
        => (last.notified = {} /\ last.outcome = "pending"
            /\ TaskOf(last.pass) # {})
  /\ (last.op = "getDeployedModDataDone" /\ last.walk = "cancelled")
        => /\ last.exit = "completed" /\ last.notified = {}
           /\ \A c \in 1..Len(CACHE) : CACHE[c].scan # last.pass
           /\ last.outcome \in {"resolved", "pending"}
           /\ last.outcome = "pending"
                => \E t \in TaskOf(last.pass) : tasks[t].kind = "setup"
  /\ (/\ last.op \in {"getDeployedModDataDone", "finallyHandler"}
      /\ last.walk = "cancelled" /\ last.outcome # "pending")
        => /\ last.exit = "completed" /\ last.outcome = "resolved"
           /\ last.notified = {}
           /\ CACHE = <<>>
           /\ TaskOf(last.pass) = {}
           /\ last.dispatched = 1
           /\ gameParams.parameters[2]
                = emitted(enabledIds(CACHE, LAUNCHER_DATA, last.lo))

\* C7: a walk that fails because the Modules directory or an official
\* module directory is missing shows the re-install notification and is
\* fatal to the pass: the pass is aborted (rejected) there and reaches
\* neither resolution nor parameter dispatch.
C7_OfficialMissingFatal ==
  last.walk = "official"
    => /\ last.op = "walkAsyncDone"
       /\ ReinstallMsg \in last.notified
       /\ last.outcome = "rejected"
       /\ TaskOf(last.pass) = {}
       /\ last.dispatched = 0

\* r is the reconciled sequence of cache and a user load order lo: the
\* cache ids matched (by vortexId) by the enabled entries, by position
EnabledMatched(cache, lo) ==
  {i \in 1..Len(lo) :
     lo[i].enabled /\ \E c \in 1..Len(cache) : cache[c].vortexId = lo[i].key}
PosOfId(cache, lo, id) ==
  lo[CHOOSE i \in 1..Len(lo) : lo[i].key = Get(cache, id).vortexId].pos
IsReconciled(r, cache, lo) ==
  /\ Len(r) = Cardinality(EnabledMatched(cache, lo))
  /\ \A i \in EnabledMatched(cache, lo) :
       \E k \in 1..Len(r) : Get(cache, r[k]).vortexId = lo[i].key
  /\ \A k \in 1..Len(r) :
       \E i \in EnabledMatched(cache, lo) : Get(cache, r[k]).vortexId = lo[i].key
  /\ \A k, l \in 1..Len(r) :
       k < l => PosOfId(cache, lo, r[k]) <= PosOfId(cache, lo, r[l])
ExpectedUser(cache, lo) ==
  CHOOSE r \in SeqsUpTo(IdSet(cache), Len(cache)) : IsReconciled(r, cache, lo)

\* C8: with a user load order, the ids emitted are those of the cache
\* records matched (by vortexId) by the entries with enabled = true, in
\* ascending position, unmatched entries dropped; the cache's insertion
\* order has no influence (X at position 1, Y at position 0 give [Y, X]).
C8_UserOrderSequence ==
  /\ \A lo \in LoadOrders :
       Len(lo) > 0 =>
         /\ IsReconciled(enabledIds(CACHE, LAUNCHER_DATA, lo), CACHE, lo)
         /\ enabledIds(Reverse(CACHE), LAUNCHER_DATA, lo)
              = enabledIds(CACHE, LAUNCHER_DATA, lo)
  /\ (last.dispatched = 1 /\ Len(last.lo) > 0)
        => gameParams.parameters[2] = emitted(ExpectedUser(CACHE, last.lo))
C8_Witness ==
  /\ last.dispatched = 1
  /\ last.lo = << LoEntry("vA", 1, TRUE), LoEntry("B", 0, TRUE) >>
  /\ Keys(CACHE) = <<"A", "B">>
  /\ gameParams.parameters[2] = emitted(<<"B", "A">>)

\* the enabled singleplayer preferences, in their declared order
EnabledIdx(prefs) == {i \in 1..Len(prefs) : prefs[i].enabled}
ExpectedFallback(prefs) ==
  [k \in 1..Cardinality(EnabledIdx(prefs)) |->
     prefs[CHOOSE i \in EnabledIdx(prefs) :
             Cardinality({j \in EnabledIdx(prefs) : j < i}) = k - 1].subModId]

\* C9: with no user load order, the ids emitted are the singleplayer
\* launcher preferences with enabled = true in their declared order
\* (the disabled Y is left out); with a user load order the preferences
\* are not used.
C9_FallbackSequence ==
  /\ (last.dispatched = 1 /\ Len(last.lo) = 0)
        => gameParams.parameters[2]
             = emitted(ExpectedFallback(LAUNCHER_DATA.singlePlayerSubMods))
  /\ (last.dispatched = 1 /\ Len(last.lo) > 0)
        => /\ gameParams.parameters[2] = emitted(ExpectedUser(CACHE, last.lo))
           /\ \A k \in 1..Len(gameParams.parameters[2]) :
                gameParams.parameters[2][k] \in
                  IdSet(CACHE) \cup Range(PARAMS_TEMPLATE[2]) \cup {"*"}
C9_Witness ==
  /\ last.dispatched = 1 /\ last.lo = <<>>
  /\ Len(LAUNCHER_DATA.singlePlayerSubMods) = 7
  /\ LAUNCHER_DATA.singlePlayerSubMods[2] = [subModId |-> "B", enabled |-> TRUE]
  /\ LAUNCHER_DATA.singlePlayerSubMods[3] = [subModId |-> "Y", enabled |-> FALSE]
  /\ \E i \in 1..Len(LAUNCHER_DATA.multiplayerSubMods) :
       LAUNCHER_DATA.multiplayerSubMods[i].enabled
  /\ gameParams.parameters[2]
       = emitted(<<"A", "B", DollarDollar, DollarAmp, DollarQuote,
                   DollarBacktick>>)

\* C10: refreshGameParams leaves the cache (keys, order, validation sets),
\* the launcher preferences and the user load order as they are; it only
\* dispatches parameters, and it emits an enabled module whatever its
\* cyclic and missing sets hold.
C10_PureOverlay ==
  [][last'.op = "refreshGameParams"
       => /\ CACHE' = CACHE
          /\ LAUNCHER_DATA' = LAUNCHER_DATA
          /\ loadOrder' = loadOrder
          /\ activeProfile' = activeProfile
          /\ last'.dispatched = 1
          /\ \A c \in 1..Len(CACHE) :
               (\E i \in 1..Len(last'.lo) :
                   last'.lo[i].enabled /\ last'.lo[i].key = CACHE[c].vortexId)
                 => CACHE[c].id \in Range(gameParams'.parameters[2])]_vars
C10_Witness ==
  /\ last.op = "refreshGameParams"
  /\ \E c \in 1..Len(CACHE) :
       /\ CACHE[c].invalid.cyclic # {}
       /\ CACHE[c].id \in Range(gameParams.parameters[2])

\* the records of the cache whose vortexId is the id asked for
MatchedBy(cache, vortexId) ==
  {c \in 1..Len(cache) : cache[c].vortexId = vortexId}
\* C11: getValidationInfo has a result in every reachable cache state (the
\* empty cache and a cache under refresh included): for an id that is the
\* vortexId of no record it is {cyclic: [], missing: []}, for an id that is
\* the vortexId of a record it is that record's cyclic and missing sets;
\* the cache key plays no part in the match.
C11_ValidationInfo ==
  \A v \in ItemIds \cup {"B", "vC", "vZ", Undefined} :
    LET info == getValidationInfo(CACHE, v)
    IN /\ DOMAIN info = {"cyclic", "missing"}
       /\ MatchedBy(CACHE, v) = {} => info = NoInvalid
       /\ MatchedBy(CACHE, v) # {}
            => \E c \in MatchedBy(CACHE, v) :
                 /\ info.cyclic = CACHE[c].invalid.cyclic
                 /\ info.missing = CACHE[c].invalid.missing
C11_Witness ==
  /\ last.op = "host"
  /\ \E c \in 1..Len(CACHE) :
       /\ CACHE[c].id = "C" /\ CACHE[c].vortexId = "vC"
       /\ CACHE[c].invalid.cyclic = {"B"}
       /\ CACHE[c].invalid.missing = {"D"}
  /\ getValidationInfo(CACHE, "vC") = [cyclic |-> {"B"}, missing |-> {"D"}]
  /\ getValidationInfo(CACHE, "C") = NoInvalid

\* is there a chain of present dependencies from module a down to module b
\* (a depends, directly or through others, on b)
Chain(cache, a, b) ==
  \E p \in UNION {[1..n -> IdSet(cache)] : n \in 2..(Len(cache) + 1)} :
    /\ p[1] = a /\ p[Len(p)] = b
    /\ \A i \in 1..(Len(p) - 1) :
         p[i + 1] \in Range(Get(cache, p[i]).dependencies)
Acyclic(cache) == \A id \in IdSet(cache) : ~Chain(cache, id, id)
IndexOf(seq, x) == CHOOSE i \in 1..Len(seq) : seq[i] = x

\* C12: when the dependencies among the modules present in the cache form
\* no cycle, the ordering returned by tSort holds every module after each
\* of its dependencies that is present (B on A, C on B: A, B, C).
C12_DependenciesFirst ==
  (last.op = "tSort" /\ Acyclic(CACHE))
    => \A id \in IdSet(CACHE) :
         \A dep \in Range(Get(CACHE, id).dependencies) \cap IdSet(CACHE) :
           /\ id \in Range(last.sorted) /\ dep \in Range(last.sorted)
           /\ IndexOf(last.sorted, dep) < IndexOf(last.sorted, id)
C12_Witness ==
  /\ last.op = "tSort"
  /\ Keys(CACHE) = <<"C", "B", "A">>
  /\ Get(CACHE, "B").dependencies = <<"A">>
  /\ Get(CACHE, "C").dependencies = <<"B">>
  /\ Get(CACHE, "A").dependencies = <<>>
  /\ last.lo = << LoEntry("vA", 1, TRUE), LoEntry("B", 0, TRUE) >>
  /\ last.sorted = <<"A", "B", "C">>

\* the modules Kahn's algorithm cannot place: those on a cycle of present
\* dependencies and those that depend, through any chain, on such a module
OnCycle(cache, id) == Chain(cache, id, id)
Stuck(cache) ==
  {id \in IdSet(cache) :
     \/ OnCycle(cache, id)
     \/ \E m \in IdSet(cache) : Chain(cache, id, m) /\ OnCycle(cache, m)}

\* C13: for every cache, with cycles and absent dependencies too, tSort
\* returns an ordering that holds every cache id exactly once; the modules
\* a cycle leaves unplaced come last, in cache enumeration order, after
\* all the modules that were placed.
C13_FullOrdering ==
  last.op = "tSort"
    => /\ Len(last.sorted) = Len(CACHE)
       /\ \A id \in IdSet(CACHE) :
            Cardinality({i \in 1..Len(last.sorted) : last.sorted[i] = id}) = 1
       /\ LET stuck == Stuck(CACHE)
              placed == Len(CACHE) - Cardinality(stuck)
          IN /\ \A i \in 1..placed : last.sorted[i] \notin stuck
             /\ SubSeq(last.sorted, placed + 1, Len(last.sorted))
                  = SelectSeq(Keys(CACHE), LAMBDA key : key \in stuck)
C13_Witness ==
  /\ last.op = "tSort"
  /\ Keys(CACHE) = <<"B", "A", "C">>
  /\ Get(CACHE, "A").dependencies = <<"B">>
  /\ Get(CACHE, "B").dependencies = <<"A">>
  /\ Get(CACHE, "C").dependencies = <<"D">>
  /\ last.sorted = <<"C", "B", "A">>

\* C14: after tSort, the cyclic set of a module on a cycle holds all the
\* other modules of that cycle (those it depends on through some chain and
\* that depend on it through some chain), not only its neighbour, and the
\* cyclic set of a module on no cycle is empty (A on B and B on A:
\* cyclic(A) = {B}, cyclic(B) = {A}).
C14_CyclicSets ==
  last.op = "tSort"
    => \A c \in 1..Len(CACHE) :
         /\ CACHE[c].invalid.cyclic
              = {m \in IdSet(CACHE) \ {CACHE[c].id} :
                   Chain(CACHE, CACHE[c].id, m) /\ Chain(CACHE, m, CACHE[c].id)}
         /\ ~OnCycle(CACHE, CACHE[c].id) => CACHE[c].invalid.cyclic = {}
C14_Witness ==
  /\ last.op = "tSort"
  /\ IdSet(CACHE) = {"A", "B", "C"}
  /\ Get(CACHE, "A").dependencies = <<"B">>
  /\ Get(CACHE, "B").dependencies = <<"A">>
  /\ Get(CACHE, "C").dependencies = <<"B">>
  /\ Get(CACHE, "A").invalid.cyclic = {"B"}
  /\ Get(CACHE, "B").invalid.cyclic = {"A"}
  /\ Get(CACHE, "C").invalid.cyclic = {}

\* C15: after tSort, the missing set of every module in the cache is
\* exactly its declared dependencies that are no cache key; a dependency
\* that is absent does not hold a module back: the module is in the
\* ordering and, unless a cycle keeps it unplaced, after every one of its
\* dependencies that is present.
C15_MissingSets ==
  last.op = "tSort"
    => LET stuck == Stuck(CACHE)
       IN \A c \in 1..Len(CACHE) :
            LET declared == Range(CACHE[c].dependencies)
            IN /\ CACHE[c].invalid.missing
                    = {d \in declared : \A k \in 1..Len(CACHE) : CACHE[k].id # d}
               /\ CACHE[c].id \in Range(last.sorted)
               /\ CACHE[c].id \notin stuck
                    => /\ IndexOf(last.sorted, CACHE[c].id)
                            <= Len(CACHE) - Cardinality(stuck)
                       /\ \A d \in declared \cap IdSet(CACHE) :
                            IndexOf(last.sorted, d)
                              < IndexOf(last.sorted, CACHE[c].id)
C15_Witness ==
  /\ last.op = "tSort"
  /\ Keys(CACHE) = <<"C", "B", "A">>
  /\ Get(CACHE, "C").dependencies = <<"B", "D">>
  /\ Get(CACHE, "B").dependencies = <<>>
  /\ Get(CACHE, "A").dependencies = <<>>
  /\ Get(CACHE, "C").invalid.missing = {"D"}
  /\ Get(CACHE, "B").invalid.missing = {}
  /\ last.lo = <<>>
  /\ last.sorted = <<"B", "C", "A">>

\* the hint's entries for a module of the cache, and the module's place in
\* the enumeration of the cache
HintOf(cache, hint, id) ==
  {i \in 1..Len(hint) :
     \E c \in 1..Len(cache) : cache[c].id = id /\ cache[c].vortexId = hint[i].key}
\* the modules that could be placed next, given those placed so far
ReadyAfter(cache, placed) ==
  {id \in IdSet(cache) \ placed :
     (Range(Get(cache, id).dependencies) \cap IdSet(cache)) \subseteq placed}
\* n is rightly taken in preference to m
Preferred(cache, hint, n, m) ==
  /\ (HintOf(cache, hint, n) # {} /\ HintOf(cache, hint, m) # {})
       => \A i \in HintOf(cache, hint, n), j \in HintOf(cache, hint, m) :
            \/ hint[i].pos < hint[j].pos
            \/ /\ hint[i].pos = hint[j].pos
               /\ IndexOf(Keys(cache), n) < IndexOf(Keys(cache), m)
  /\ (HintOf(cache, hint, n) = {} /\ HintOf(cache, hint, m) = {})
       => IndexOf(Keys(cache), n) < IndexOf(Keys(cache), m)

\* the ordering returned follows the stated tie-break: every module placed
\* (those a cycle leaves for the end apart) is, among the modules ready at
\* that point, ahead of each other one listed in the hint by position when
\* it is listed itself, and ahead of each other unlisted one by cache
\* enumeration order when it is not
FollowsTieBreak ==
  last.op = "tSort"
    => \A k \in 1..(Len(CACHE) - Cardinality(Stuck(CACHE))) :
         LET placed == {last.sorted[i] : i \in 1..(k - 1)}
         IN \A m \in ReadyAfter(CACHE, placed) \ {last.sorted[k]} :
              Preferred(CACHE, last.lo, last.sorted[k], m)
\* the stated tie-break decides between every two modules that can be
\* ready together (neither depends on the other, neither is held by a
\* cycle): both are listed in the hint, or neither is
Decided(cache, hint) ==
  \A n, m \in IdSet(cache) \ Stuck(cache) :
    (n # m /\ ~Chain(cache, n, m) /\ ~Chain(cache, m, n))
      => (HintOf(cache, hint, n) = {} <=> HintOf(cache, hint, m) = {})

Contents(cache) ==
  [i \in 1..Len(cache) |->
     [id |-> cache[i].id, vortexId |-> cache[i].vortexId,
      dependencies |-> cache[i].dependencies,
      cyclic |-> cache[i].invalid.cyclic, missing |-> cache[i].invalid.missing]]
\* what one pass over the manifests of a scan gives on its own
ScanOnly(paths) ==
  LET docs == SelectSeq([i \in 1..Len(paths) |-> paths[i].doc],
                        LAMBDA doc : doc.kind = "module")
  IN [i \in 1..Len(docs) |->
        [id |-> docs[i].id, vortexId |-> docs[i].vortexId,
         dependencies |-> docs[i].dependencies,
         cyclic |-> {m \in IdSet(docs) \ {docs[i].id} :
                       Chain(docs, docs[i].id, m) /\ Chain(docs, m, docs[i].id)},
         missing |-> Range(docs[i].dependencies) \ IdSet(docs)]]

\* C17: of consecutive passes (each called when no other is in flight, and
\* no other called before it has completed), one that completes leaves the
\* cache as one pass over its own scan gives it, whatever the passes
\* before it left: the same ids in the same order with the same cyclic and
\* missing sets; so a second pass over the same records changes nothing,
\* and what an earlier scan reported as missing or cyclic is gone once the
\* latest scan has it fixed.
C17_RebuildIdempotent ==
  [][(/\ last'.op = "getDeployedModDataDone" /\ last'.exit = "completed"
      /\ last'.alone)
       => \A t \in Slots :
            (tasks[t].pc = "awaitParse" /\ tasks[t].pass = last'.pass)
              => /\ Contents(CACHE') = ScanOnly(tasks[t].paths)
                 /\ Contents(tasks[t].before) = ScanOnly(tasks[t].paths)
                      => Contents(CACHE') = Contents(tasks[t].before)]_vars
C17_Witness ==
  /\ last.op = "getDeployedModDataDone" /\ last.exit = "completed"
  /\ last.pass = 2 /\ last.alone
  /\ Keys(last.before) = <<"B", "C">>
  /\ Get(last.before, "B").invalid.missing = {"A"}
  /\ Keys(CACHE) = <<"A", "B">>
  /\ Get(CACHE, "B").invalid.missing = {}
  /\ \A c \in 1..Len(CACHE) : CACHE[c].scan = 2

\* a template fragment with its placeholder filled by a text as it stands
Filled(frag, token, text) ==
  LET at == CHOOSE i \in 1..Len(frag) : frag[i] = token
  IN SubSeq(frag, 1, at - 1) \o text \o SubSeq(frag, at + 1, Len(frag))
\* each id behind the marker, nothing between them
Marked(ids) == [i \in 1..(2 * Len(ids)) |->
                  IF i % 2 = 1 THEN "*" ELSE ids[i \div 2]]

\* C18: the parameters dispatched are always exactly two fragments: the
\* first template with the game mode placeholder replaced by singleplayer,
\* the second with the ids placeholder replaced by the emitted ids in
\* their order, each behind the marker *, with nothing in between (nothing
\* at all for no ids).
C18_TwoFragments ==
  last.dispatched = 1
    => /\ Len(gameParams.parameters) = 2
       /\ gameParams.parameters[1]
            = Filled(PARAMS_TEMPLATE[1], GameModeToken, <<"singleplayer">>)
       /\ gameParams.parameters[2]
            = Filled(PARAMS_TEMPLATE[2], SubModIdsToken,
                     Marked(enabledIds(CACHE, LAUNCHER_DATA, last.lo)))

\* the step just taken belongs to a refreshCacheOnEvent pass
RefreshStep ==
  \/ last'.op = "refreshCacheOnEvent"
  \/ /\ last'.op \in {"refreshCatch", "walkAsyncDone",
                     "getDeployedModDataCall", "getDeployedModDataDone"}
     /\ \E t \in Slots : tasks[t].kind = "refresh" /\ tasks[t].pass = last'.pass

\* C19: no step of a refreshCacheOnEvent pass, whatever its outcome,
\* changes the launcher preferences; they change only in a
\* prepareForModding pass, and only when it has read the preferences
\* document successfully (the document found and its entries valid).
C19_LauncherPreferencesFrame ==
  [][/\ RefreshStep => LAUNCHER_DATA' = LAUNCHER_DATA
     /\ LAUNCHER_DATA' # LAUNCHER_DATA
          => /\ last'.op = "getXMLDataDone"
             /\ last'.exit \notin {"notFound", "dataInvalid"}]_vars

\* the call just made falls under one of the three guards
GuardedCall ==
  /\ last'.op = "refreshCacheOnEvent"
  /\ \/ last'.arg = Undefined
     \/ /\ activeProfile \in ProfileIds /\ last'.arg \in ProfileIds
        /\ last'.arg # activeProfile
     \/ activeProfile \notin {p \in ProfileIds : profileById(p).gameId = GAME_ID}

\* C20: a call of refreshCacheOnEvent with an undefined profile id, for a
\* deploy profile other than the active one, or while the active profile
\* is of another game (or there is none) resolves at once: no scan is
\* started, the refresh callback is not called and no parameters are
\* dispatched.
C20_GuardsBeforeEffects ==
  [][GuardedCall
       => /\ last'.outcome = "resolved"
          /\ tasks' = tasks
          /\ \A t \in Slots : tasks'[t].pass # last'.pass
          /\ ~last'.refreshFunc
          /\ last'.dispatched = 0
          /\ gameParams' = gameParams]_vars
C20_Witness ==
  /\ last.op = "refreshCacheOnEvent" /\ last.arg = "p2"
  /\ activeProfile = "p2"
  /\ discovered
  /\ last.outcome = "resolved"
  /\ gameParams # NoParams
  /\ tasks = [t \in Slots |-> IdleTask]

\* the step just taken is a step of the setup pass held in slot t
SetupStep(t) ==
  /\ tasks[t].kind = "setup" /\ tasks[t].pc # "idle"
  /\ last'.pass = tasks[t].pass
  /\ last'.op \in {"statAsyncDone", "findGameDone", "findStoreIdDone",
                   "startSteamDone",
                   "getXMLDataDone", "rebuildHandler", "walkAsyncDone",
                   "getDeployedModDataCall", "getDeployedModDataDone",
                   "catchHandler", "finallyHandler"}

\* the steps a pass still has before it, at most
StepsLeft(pc) ==
  CASE pc = "awaitStat" -> 11 [] pc = "awaitFindGame" -> 10
    [] pc = "foundGame" -> 9
    [] pc = "awaitStore" -> 8 [] pc = "awaitXML" -> 7 [] pc = "rebuild" -> 6
    [] pc = "awaitPaths" -> 5 [] pc = "pathsReturned" -> 4
    [] pc = "awaitParse" -> 3 [] pc = "catch" -> 2 [] pc = "finally" -> 1
    [] OTHER -> 0
\* a task, the bookkeeping of overlaps left out
Core(task) == [task EXCEPT !.alone = TRUE]

\* C21: a setup pass ends by dispatching the launch parameters, once: the
\* step that ends it is the one of its finally handler, which dispatches
\* after the rebuild has finished or failed; no earlier step of the pass
\* dispatches, and each of its steps brings it nearer to its end (it waits
\* for the modding kit to be looked up, for the game store to be found
\* and started, for the document, for the handler that starts the
\* rebuild, for the walk, for its resumption with the paths, for the
\* parsing, for its catch handler when a step has failed, for its finally
\* handler).  This holds for each outcome: success
\* (resolved), preferences document absent (a notification, resolved, and
\* no step of the pass changes the cache), any other failure (rejected).
\* Without an active profile the parameters are those of an empty user
\* load order: the enabled singleplayer preferences.
C21_SetupAlwaysDispatches ==
  /\ [][\A t \in Slots :
          SetupStep(t)
            => /\ tasks'[t].pc # "idle"
                    => (last'.dispatched = 0 /\ gameParams' = gameParams
                         /\ last'.outcome = "pending")
               /\ last'.exit = "notFound"
                    => /\ CACHE' = CACHE
                       /\ tasks'[t].pc \in {"catch", "finally", "idle"}
                       /\ last'.op = "catchHandler"
                            => LauncherDataMsg \in last'.notified
               /\ tasks'[t].pc = "idle"
                    => /\ last'.op = "finallyHandler" /\ tasks[t].pc = "finally"
                       /\ last'.dispatched = 1
                       /\ last'.outcome \in {"resolved", "rejected"}
                       /\ last'.outcome = "resolved"
                            <=> last'.exit \in {"completed", "notFound"}
                       /\ Len(gameParams'.parameters) = 2
                       /\ activeProfile = NoProfile
                            => gameParams'.parameters[2]
                                 = emitted(ExpectedFallback(
                                     LAUNCHER_DATA'.singlePlayerSubMods))
                       /\ activeProfile = "p1"
                            => gameParams'.parameters[2]
                                 = emitted(enabledIds(CACHE', LAUNCHER_DATA',
                                                      loadOrder))]_vars
  /\ [][\A t \in Slots :
          (tasks[t].kind = "setup" /\ Core(tasks'[t]) # Core(tasks[t]))
            => /\ SetupStep(t)
               /\ StepsLeft(tasks'[t].pc) < StepsLeft(tasks[t].pc)]_vars
  /\ [](\A t \in Slots :
          tasks[t].kind = "setup"
            => /\ tasks[t].pc \in {"awaitStat", "awaitFindGame", "foundGame",
                                   "awaitStore",
                                   "awaitXML", "rebuild", "awaitPaths",
                                   "pathsReturned", "awaitParse", "catch",
                                   "finally"}
               /\ tasks[t].pass < nextPass)
C21_Witness ==
  /\ last.op = "finallyHandler" /\ last.exit = "completed"
  /\ last.dispatched = 1 /\ last.outcome = "resolved"
  /\ ~last.refreshFunc
  /\ activeProfile = NoProfile
  /\ loadOrder # <<>>
  /\ CACHE # <<>>
  /\ Len(LAUNCHER_DATA.singlePlayerSubMods) = 7
  /\ LAUNCHER_DATA.singlePlayerSubMods[3] = [subModId |-> "Y", enabled |-> FALSE]
  /\ gameParams.parameters[2]
       = emitted(<<"A", "B", DollarDollar, DollarAmp, DollarQuote,
                   DollarBacktick>>)

\* the step just taken is a step of the refresh pass held in slot t
RefreshPassStep(t, op) ==
  /\ last'.op = op /\ last'.pass = tasks[t].pass
  /\ tasks[t].kind = "refresh" /\ tasks[t].pc # "idle"

\* the steps of a refresh pass that succeeds, the cache being cleared
\* clears times: the call clears the cache and takes the user load order
\* of the active profile; then the scan and the resumption that hands its
\* paths to the parsing, which leave the cache as it is and call and
\* dispatch nothing; then the cache is populated from the
\* scan and resolved (the validation written), then the callback is called
\* (it finds the resolved cache, and the parameters not yet dispatched),
\* then the parameters are dispatched.  When no other pass has been in
\* flight along with it, the cache is moreover empty from the call to the
\* populating, and holds the scan and nothing else after it.  The hint of
\* the resolution and the parameters dispatched use the load order taken
\* at the call, whatever the user has made of the load order meanwhile.
RefreshPassSteps(clears) ==
     \A t \in Slots :
       /\ (/\ last'.op = "refreshCacheOnEvent" /\ last'.exit = "suspended"
           /\ tasks'[t].pass = last'.pass /\ tasks'[t].pc # "idle")
            => /\ tasks[t].pc = "idle" /\ tasks'[t].pc = "awaitPaths"
               /\ last'.pass = nextPass /\ nextPass' = nextPass + 1
               /\ CACHE' = <<>>
               /\ last'.clears = clears
               /\ activeProfile = "p1" /\ tasks'[t].lo = loadOrder
               /\ ~last'.refreshFunc /\ last'.dispatched = 0
               /\ gameParams' = gameParams
       /\ RefreshPassStep(t, "walkAsyncDone")
            => /\ tasks[t].pc = "awaitPaths" /\ tasks'[t].pc = "pathsReturned"
               /\ tasks'[t].lo = tasks[t].lo
               /\ CACHE' = CACHE
               /\ tasks[t].alone => CACHE = <<>>
               /\ ~last'.refreshFunc /\ last'.dispatched = 0
               /\ last'.clears = 0
               /\ gameParams' = gameParams
       /\ RefreshPassStep(t, "getDeployedModDataCall")
            => /\ tasks[t].pc = "pathsReturned" /\ tasks'[t].pc = "awaitParse"
               /\ tasks'[t].lo = tasks[t].lo
               /\ tasks'[t].paths = tasks[t].paths
               /\ CACHE' = CACHE
               /\ tasks[t].alone => CACHE = <<>>
               /\ ~last'.refreshFunc /\ last'.dispatched = 0
               /\ last'.clears = 0
               /\ gameParams' = gameParams
       /\ (RefreshPassStep(t, "getDeployedModDataDone")
             /\ last'.exit = "completed")
            => /\ tasks[t].pc = "awaitParse" /\ tasks'[t].pc = "idle"
               /\ \A r \in Range(ScanOnly(tasks[t].paths)) :
                    \E c \in 1..Len(CACHE') :
                      CACHE'[c].id = r.id /\ CACHE'[c].scan = tasks[t].pass
               /\ \A c \in 1..Len(CACHE') :
                    /\ CACHE'[c].invalid.cyclic = cyclicOf(CACHE', CACHE'[c].id)
                    /\ CACHE'[c].invalid.missing = missingOf(CACHE', CACHE'[c].id)
               /\ tasks[t].alone
                    => /\ CACHE = <<>>
                       /\ Contents(CACHE') = ScanOnly(tasks[t].paths)
               /\ last'.clears = 0
               /\ last'.refreshFunc /\ last'.dispatched = 1
               /\ last'.seen.cache = CACHE'
               /\ last'.seen.params = gameParams
               /\ last'.lo = tasks[t].lo
               /\ last'.sorted \in tSort(CACHE', tasks[t].lo)
               /\ gameParams'.parameters[2]
                    = emitted(enabledIds(CACHE', LAUNCHER_DATA, tasks[t].lo))
       /\ (/\ tasks[t].kind = "refresh" /\ tasks'[t] # tasks[t]
           /\ Core(tasks'[t]) # Core(tasks[t]))
            => \/ RefreshPassStep(t, "walkAsyncDone")
               \/ RefreshPassStep(t, "getDeployedModDataCall")
               \/ RefreshPassStep(t, "getDeployedModDataDone")
               \/ /\ RefreshPassStep(t, "refreshCatch")
                  /\ tasks[t].exit = "discoveryIncomplete"
                  /\ CACHE' = CACHE /\ gameParams' = gameParams
                  /\ ~last'.refreshFunc /\ last'.dispatched = 0

====
